---- MODULE Spec2Model ----
(***************************************************************************)
(* Model of src/app.py: the Flask handler analyze_data and its helpers     *)
(* read_file_content, generate_analysis_script, debug_and_fix_script and   *)
(* run_script_with_uv.  One behaviour of Spec is one request; one          *)
(* behaviour of ConcSpec is a set of requests running at the same time,    *)
(* which share the directory of mkdtemp and the file log.csv.              *)
(*                                                                         *)
(* Texts are modelled as sequences of tokens so that strip(), replace()    *)
(* and json.loads() are computed, not assumed.                             *)
(***************************************************************************)
EXTENDS Integers, Sequences, FiniteSets, TLC

VARIABLES
    pc,              \* position of the handler in analyze_data
    max_attempts,    \* the attempt bound (app.py:192)
    files,           \* request.files.items(): the uploaded fields, in order
    idx,             \* number of fields the materialization loop has consumed
    temp_dir,        \* the directory mkdtemp returned, or NoDir
    disk,            \* the files of temp_dir: filename -> content
    file_contents,   \* filename -> preview
    file_info,       \* filename -> [size, path]
    question,        \* the question text
    script_content,  \* the current script text
    attempt,         \* the loop variable of the retry loop
    child,           \* what the latest child process does (NoChild before the first)
    returncode, stdout, stderr,   \* result of the latest execution
    log,             \* rows appended to log.csv by this request
    response,        \* the (body, status) the handler returned
    fault,           \* the exception that reached the outer handler, or NoFault
    generate_calls,  \* language-model calls made by generate_analysis_script
    repair_calls,    \* language-model calls made by debug_and_fix_script
    executions,      \* calls of run_script_with_uv
    service,         \* how the latest language-model call ended: "none", "ok", "failed"
    executed,        \* the text of the script file the latest child was started on
    repair_args,     \* what the latest call of debug_and_fix_script was given
    requests,        \* concurrent requests: client -> the locals of its run
    made,            \* the directories mkdtemp has created
    script_files,    \* path -> [text, by]: a script file and the client that wrote it
    log_csv,         \* the content of log.csv: the fields in the file, in order
    written          \* the rows handed to log.csv, in the order of the writes, each
                     \* with its client and its attempt

svars == <<pc, max_attempts, files, idx, temp_dir, disk, file_contents, file_info,
          question, script_content, attempt, child, returncode, stdout, stderr,
          log, response, fault, generate_calls, repair_calls, executions, service,
          executed, repair_args>>

\* what concurrent requests have and share
cvars == <<requests, made, script_files, log_csv, written>>

vars == <<svars, cvars>>

----------------------------------------------------------------------------
(* Bounds of the model *)

\* the attempt bound ranges over 1..MaxAttemptsBound
MaxAttemptsBound == 2
\* a request carries at most MaxFiles uploaded fields
MaxFiles == 2

----------------------------------------------------------------------------
(* Values *)

NoDir == "no_dir"
TempDir == "tmpdir"
NoFault == "none"
NoResponse == [status |-> 0, body |-> [none |-> TRUE]]
NoArgs == [script |-> <<>>, returncode |-> 0, stdout |-> <<>>, stderr |-> ""]
NoChild == [kind |-> "none", returncode |-> 0, stdout |-> <<>>, stderr |-> ""]
EmptyMap == [n \in {} |-> <<>>]
ts == "ts"

\* a byte of an uploaded file that is not valid UTF-8
Undecodable == "\\xff"

\* Whitespace token of a text
WS == " "

----------------------------------------------------------------------------
(* The request *)

\* werkzeug's secure_filename on the raw filenames of the model: path
\* separators and leading/trailing dots are dropped, so "..." becomes "".
secure_filename(raw) ==
    CASE raw = "..." -> ""
      [] raw = "../data.csv" -> "data.csv"
      [] OTHER -> raw

\* the suffix test of read_file_content on the (secured) filenames of the model
Suffix(filename) ==
    CASE filename \in {"data.csv"} -> ".csv"
      [] filename \in {"questions.txt", "q2.txt"} -> ".txt"
      [] filename \in {"plot.png"} -> ".png"
      [] OTHER -> ""

\* The uploaded fields a request is built from: [key, filename, content].
FileChoices ==
    { [key |-> "questions.txt", filename |-> "questions.txt", content |-> <<"What is X?">>],
      [key |-> "questions.txt", filename |-> "questions.txt", content |-> <<>>],
      [key |-> "questions.txt", filename |-> "questions.txt", content |-> <<Undecodable>>],
      [key |-> "questions.txt", filename |-> "", content |-> <<"What is X?">>],
      [key |-> "question2", filename |-> "q2.txt", content |-> <<"What is Y?">>],
      [key |-> "question2", filename |-> "q2.txt", content |-> <<>>],
      [key |-> "data", filename |-> "../data.csv", content |-> <<"a,b,c", "1,2,3">>],
      [key |-> "image", filename |-> "plot.png", content |-> <<Undecodable>>],
      [key |-> "data", filename |-> "analysis_script.py", content |-> <<"user code">>],
      [key |-> "data", filename |-> "...", content |-> <<"a,b,c", "1,2,3">>] }

\* request.files.items() yields one entry per distinct key
Requests ==
    { fs \in UNION { [1..n -> FileChoices] : n \in 0..MaxFiles } :
        \A i, j \in DOMAIN fs : i # j => fs[i].key # fs[j].key }

\* key == 'questions.txt' or key.startswith('question')
IsQuestionKey(key) == key \in {"questions.txt", "question2"}

\* the request carries a field holding the question
HasQuestionField(fs) == \E i \in DOMAIN fs : fs[i].key \in {"questions.txt", "question2"}

----------------------------------------------------------------------------
(* read_file_content *)

ReadError == <<"Error reading file: e">>

Decodable(content) == \A i \in DOMAIN content : content[i] # Undecodable

\* The text mode readers fail on bytes that are not UTF-8; the image branch
\* reads bytes and always succeeds; every exception becomes the error marker.
read_file_content(filename, content) ==
    CASE Suffix(filename) = ".csv" ->
            IF Decodable(content)
            THEN <<"CSV file with columns:", "Sample data (first 10 rows):">> \o content
            ELSE ReadError
      [] Suffix(filename) = ".png" -> <<"data:image/png;base64,">> \o content
      [] OTHER -> IF Decodable(content) THEN content ELSE ReadError

\* os.path.getsize
getsize(content) == Len(content)

Put(map, k, v) == [n \in DOMAIN map \cup {k} |-> IF n = k THEN v ELSE map[n]]

----------------------------------------------------------------------------
(* Responses *)

\* jsonify(body), status
Respond(body, status) == [status |-> status, body |-> body]

InputErrorResponse == Respond([error |-> "No questions.txt file found"], 400)

InternalErrorResponse(e) ==
    Respond([error |-> "Internal server error: " \o e, traceback |-> e], 500)

\* Mutant of CaughtByOuterHandler: the statement that raised is outside the
\* try block, the handler ends without a response
CaughtByOuterHandler_Uncaught(e) == NoResponse

\* the outer except clause of analyze_data
CaughtByOuterHandler(e) == InternalErrorResponse(e)

\* The handler has returned: pc names the branch that returned.
Terminals == {"input_error", "succeeded", "exhausted", "internal_error"}

\* an exception e raised inside the try block of analyze_data
Raise(e) ==
    /\ pc' = "internal_error"
    /\ fault' = e
    /\ response' = CaughtByOuterHandler(e)

\* a return statement of analyze_data, in the branch named t
Return(r, t) ==
    /\ pc' = t
    /\ response' = r
    /\ UNCHANGED fault

----------------------------------------------------------------------------
(* Concurrent requests.  The server runs analyze_data once per request, each
   run on a thread of its own with its own locals.  The runs share what the
   handler reaches through the file system: the directory mkdtemp creates its
   directories in, and log.csv of the working directory.  Each request here
   already has its question; its uploads are saved under its own temp_dir. *)

\* the number of requests in flight
NumClients == 2

Clients == 1..NumClients

\* the names mkdtemp can draw; NoName is temp_dir before the call
DirNames == 1..NumClients
NoName == 0

NoFile == [mode |-> "closed", buffer |-> <<>>, pos |-> 0]
NoScript == [text |-> <<>>, by |-> 0]

\* the locals of a run of analyze_data that has not taken a step
Locals == [pc |-> "mkdtemp", temp_dir |-> NoName, script_content |-> <<>>,
           attempt |-> 0, returncode |-> 0, stdout |-> <<>>, stderr |-> "",
           outfile |-> NoFile, ran |-> NoScript]

\* str() of the integers csv.writer formats
str(n) ==
    CASE n = -1 -> "-1"
      [] n = 0 -> "0"
      [] n = 1 -> "1"
      [] n = 2 -> "2"
      [] n = 3 -> "3"
      [] n = 4 -> "4"
      [] OTHER -> "n"

\* the question of the request of client c
QuestionOf(c) == <<"question of request", str(c)>>


----------------------------------------------------------------------------
(* Initial state: a request has arrived, nothing has run *)

Init ==
    /\ pc = "mkdtemp"
    /\ max_attempts \in 1..MaxAttemptsBound
    /\ files \in Requests
    /\ idx = 0
    /\ temp_dir = NoDir
    /\ disk = EmptyMap
    /\ file_contents = EmptyMap
    /\ file_info = [n \in {} |-> [size |-> 0, path |-> <<>>]]
    /\ question = <<>>
    /\ script_content = <<>>
    /\ attempt = 0
    /\ child = NoChild
    /\ returncode = 0
    /\ stdout = <<>>
    /\ stderr = ""
    /\ log = <<>>
    /\ response = NoResponse
    /\ fault = NoFault
    /\ generate_calls = 0
    /\ repair_calls = 0
    /\ executions = 0
    /\ service = "none"
    /\ executed = <<>>
    /\ repair_args = NoArgs
    /\ requests = [c \in Clients |-> Locals]
    /\ made = {}
    /\ script_files = [n \in {} |-> NoScript]
    /\ log_csv = <<>>
    /\ written = <<>>

----------------------------------------------------------------------------
(* Materialization: app.py:147-177 *)

\* temp_dir = tempfile.mkdtemp(); file_contents = {}; file_info = {}; question = ""
Mkdtemp ==
    /\ pc = "mkdtemp"
    /\ \/ /\ temp_dir' = TempDir
          /\ pc' = "files"
          /\ UNCHANGED <<response, fault>>
       \/ /\ Raise("OSError: mkdtemp")
          /\ UNCHANGED temp_dir
    /\ UNCHANGED <<cvars, max_attempts, files, idx, disk, file_contents, file_info,
                   question, script_content, attempt, child, returncode, stdout,
                   stderr, log, generate_calls, repair_calls, executions, service,
                   executed, repair_args>>

\* file.save(file_path) fails when the secured name is empty (the path is the
\* directory itself); it can also fail for a reason of the environment.
SaveFails(filename, io_ok) == filename = "" \/ ~io_ok

\* one iteration of the loop over request.files.items()
ProcessFile ==
    /\ pc = "files"
    /\ idx < Len(files)
    /\ LET f == files[idx + 1]
           filename == secure_filename(f.filename)
       IN  IF f.filename = ""
           THEN \* (if file and file.filename) is false: the field is skipped
                /\ idx' = idx + 1
                /\ UNCHANGED <<pc, disk, file_info, question, file_contents,
                               response, fault>>
           ELSE \E io_ok \in BOOLEAN :
                IF SaveFails(filename, io_ok)
                THEN /\ Raise("OSError: save")
                     /\ UNCHANGED <<idx, disk, file_info, question, file_contents>>
                ELSE /\ disk' = Put(disk, filename, f.content)
                     /\ file_info' = Put(file_info, filename,
                                         [size |-> getsize(f.content),
                                          path |-> <<temp_dir, filename>>])
                     /\ IF IsQuestionKey(f.key)
                        THEN /\ question' = read_file_content(filename, f.content)
                             /\ UNCHANGED file_contents
                        ELSE /\ file_contents' =
                                    Put(file_contents, filename,
                                        read_file_content(filename, f.content))
                             /\ UNCHANGED question
                     /\ idx' = idx + 1
                     /\ UNCHANGED <<pc, response, fault>>
    /\ UNCHANGED <<cvars, max_attempts, files, temp_dir, script_content, attempt, child,
                   returncode, stdout, stderr, log, generate_calls, repair_calls,
                   executions, service,
                   executed, repair_args>>

\* Mutant of NoQuestion: the check for a missing question is dropped
NoQuestion_Never(q) == FALSE

\* the test (not question) of app.py:176
NoQuestion(q) == q = <<>>

\* if not question: return jsonify({"error": ...}), 400
CheckQuestion ==
    /\ pc = "files"
    /\ idx = Len(files)
    /\ IF NoQuestion(question)
       THEN Return(InputErrorResponse, "input_error")
       ELSE /\ pc' = "generate"
            /\ UNCHANGED <<response, fault>>
    /\ UNCHANGED <<cvars, max_attempts, files, idx, temp_dir, disk, file_contents,
                   file_info, question, script_content, attempt, child, returncode,
                   stdout, stderr, log, generate_calls, repair_calls, executions, service,
                   executed, repair_args>>

----------------------------------------------------------------------------
(* Texts *)

RECURSIVE lstrip(_)
lstrip(s) == IF s # <<>> /\ Head(s) = WS THEN lstrip(Tail(s)) ELSE s

RECURSIVE rstrip(_)
rstrip(s) ==
    IF s # <<>> /\ s[Len(s)] = WS THEN rstrip(SubSeq(s, 1, Len(s) - 1)) ELSE s

\* str.strip()
strip(s) == rstrip(lstrip(s))

\* str.replace(old, ''), old being one token of the text
Remove(s, old) == SelectSeq(s, LAMBDA t : t # old)

\* tokens of a standard output
JsonDoc == "{\"a\": 1}"
PlainText == "hello world"
DeepJsonDoc == "[[[[...]]]]"

\* json.loads: one JSON document parses to its value; a document nested
\* deeper than the interpreter's recursion limit raises RecursionError, which
\* is not a JSONDecodeError; anything else raises JSONDecodeError.
json_loads(s) ==
    CASE s = <<JsonDoc>> -> [kind |-> "value", value |-> [a |-> 1]]
      [] s = <<DeepJsonDoc>> -> [kind |-> "RecursionError", value |-> [a |-> 0]]
      [] OTHER -> [kind |-> "JSONDecodeError", value |-> [a |-> 0]]

----------------------------------------------------------------------------
(* The language-model calls: app.py:40-122 *)

\* the code-fence delimiter (three backquotes) and the one opening a python block
Fence == "FENCE"
FencePython == "FENCEpython"
GenerateError == "# Error generating script: e"
DebugError == "# Error debugging script: e"

\* what the service may answer to the generation prompt
GenTexts == { <<"code">>, <<FencePython, "code", Fence>> }
\* what the service may answer to the repair prompt
FixTexts == { <<"fixed code">>, <<FencePython, "fixed code", Fence>> }

\* Mutant of generate_analysis_script: the failure of the call is raised
generate_analysis_script_Raises(service_ok, answer) ==
    [text |-> answer, exception |-> IF service_ok THEN NoFault ELSE "ServiceError"]

\* generate_analysis_script: the answer, or the diagnostic comment when the call fails
generate_analysis_script(service_ok, answer) ==
    [text |-> IF service_ok THEN answer ELSE <<GenerateError>>, exception |-> NoFault]

\* debug_and_fix_script: the answer, or the diagnostic comment when the call fails
debug_and_fix_script(service_ok, answer) ==
    [text |-> IF service_ok THEN answer ELSE <<DebugError>>, exception |-> NoFault]

\* the two replace calls of app.py:181-182 drop both code-fence delimiters
StripFences(s) == Remove(Remove(s, FencePython), Fence)

IsCommentOnly(s) == \A i \in DOMAIN s : s[i] \in {GenerateError, DebugError}
HasFence(s) == \E i \in DOMAIN s : s[i] \in {Fence, FencePython}

ScriptName == "analysis_script.py"

----------------------------------------------------------------------------
(* Execution: run_script_with_uv, app.py:124-143 *)

\* the diagnostics of the two except clauses (the timeout passed at
\* app.py:194 is 150 seconds, the message names the default of 180)
TimeoutMessage == "Script execution timed out after 180 seconds"
LaunchMessage == "Error running script: e"

Exit(rc, out, err) == [kind |-> "exit", returncode |-> rc, stdout |-> out, stderr |-> err]
\* the child runs longer than any timeout
Hang == [kind |-> "hang", returncode |-> 0, stdout |-> <<>>, stderr |-> ""]
\* uv cannot be started
LaunchFailure == [kind |-> "oserror", returncode |-> 0, stdout |-> <<>>, stderr |-> ""]

\* what a script made of code may do
ScriptRuns ==
    { Exit(0, <<WS, JsonDoc, WS>>, ""),
      Exit(0, <<PlainText>>, "warning"),
      Exit(0, <<JsonDoc, JsonDoc>>, ""),
      Exit(0, <<DeepJsonDoc>>, ""),
      Exit(0, <<>>, ""),
      Exit(0, <<WS>>, "warning"),
      Exit(1, <<>>, "Traceback"),
      Exit(1, <<PlainText>>, "Traceback"),
      Exit(1, <<JsonDoc>>, "") }

\* what the child process may do, given the text of the script file: a file
\* holding only a comment prints nothing and exits 0, a file holding a code
\* fence is a syntax error; the environment may fail or stall for any script.
Behaviours(script) ==
    {Hang, LaunchFailure} \cup
    ( IF IsCommentOnly(script) THEN { Exit(0, <<>>, "") }
      ELSE IF HasFence(script) THEN { Exit(1, <<>>, "SyntaxError") }
      ELSE ScriptRuns )

\* Mutant of subprocess_run: no timeout is passed, the call blocks on a
\* child that never exits
subprocess_run_NoTimeout(c) ==
    CASE c.kind = "exit" -> "CompletedProcess"
      [] c.kind = "hang" -> "blocks"
      [] OTHER -> "OSError"

\* subprocess.run(..., timeout=timeout): how the call ends for a child
subprocess_run(c) ==
    CASE c.kind = "exit" -> "CompletedProcess"
      [] c.kind = "hang" -> "TimeoutExpired"
      [] OTHER -> "OSError"

\* Mutant of run_script_with_uv: the except clauses are missing, the
\* exception of subprocess.run propagates to the caller
run_script_with_uv_Propagates(c) ==
    [returncode |-> c.returncode, stdout |-> c.stdout, stderr |-> c.stderr,
     exception |-> IF c.kind = "exit" THEN NoFault
                   ELSE IF c.kind = "hang" THEN "TimeoutExpired" ELSE "OSError"]

\* run_script_with_uv: (returncode, stdout, stderr); both except clauses
\* return the sentinel -1 with an empty stdout
run_script_with_uv(c) ==
    CASE subprocess_run(c) = "CompletedProcess" ->
            [returncode |-> c.returncode, stdout |-> c.stdout, stderr |-> c.stderr,
             exception |-> NoFault]
      [] subprocess_run(c) = "TimeoutExpired" ->
            [returncode |-> -1, stdout |-> <<>>, stderr |-> TimeoutMessage,
             exception |-> NoFault]
      [] OTHER ->
            [returncode |-> -1, stdout |-> <<>>, stderr |-> LaunchMessage,
             exception |-> NoFault]

----------------------------------------------------------------------------
(* Generation and the retry loop: app.py:179-219 *)

\* script_content = generate_analysis_script(...), then the two replace calls
Generate ==
    /\ pc = "generate"
    /\ \E service_ok \in BOOLEAN, answer \in GenTexts :
         /\ LET r == generate_analysis_script(service_ok, answer)
            IN  IF r.exception # NoFault
                THEN Raise(r.exception) /\ UNCHANGED script_content
                ELSE /\ script_content' = StripFences(r.text)
                     /\ pc' = "write_script"
                     /\ UNCHANGED <<response, fault>>
         /\ service' = IF service_ok THEN "ok" ELSE "failed"
    /\ generate_calls' = generate_calls + 1
    /\ UNCHANGED <<cvars, max_attempts, files, idx, temp_dir, disk, file_contents,
                   file_info, question, attempt, child, returncode, stdout, stderr,
                   log, repair_calls, executions,
                   executed, repair_args>>

\* with open(script_path, 'w') as f: f.write(script_content); the loop
\* variable is next_attempt once the file is written
WriteFile(next_attempt) ==
    \/ /\ disk' = Put(disk, ScriptName, script_content)
       /\ pc' = "launch"
       /\ attempt' = next_attempt
       /\ UNCHANGED <<response, fault>>
    \/ /\ Raise("OSError: write")
       /\ UNCHANGED <<disk, attempt>>

\* app.py:185-187, then the loop starts with attempt = 0
WriteScript ==
    /\ pc = "write_script"
    /\ WriteFile(0)
    /\ UNCHANGED <<cvars, max_attempts, files, idx, temp_dir, file_contents, file_info,
                   question, script_content, child, returncode, stdout, stderr,
                   log, generate_calls, repair_calls, executions, service,
                   executed, repair_args>>

\* the loop body runs for attempt in range(max_attempts)
InRange(a, bound) == a >= 0 /\ a < bound

\* run_script_with_uv starts the child on the script file of the workspace
Launch ==
    /\ pc = "launch"
    /\ InRange(attempt, max_attempts)
    /\ executed' = disk[ScriptName]
    /\ child' \in Behaviours(disk[ScriptName])
    /\ executions' = executions + 1
    /\ pc' = "wait"
    /\ UNCHANGED <<cvars, max_attempts, files, idx, temp_dir, disk, file_contents,
                   file_info, question, script_content, attempt, returncode, stdout,
                   stderr, log, response, fault, generate_calls, repair_calls, service,
                   repair_args>>

\* subprocess.run ends and run_script_with_uv returns its triple
Wait ==
    /\ pc = "wait"
    /\ subprocess_run(child) # "blocks"
    /\ LET r == run_script_with_uv(child)
       IN  IF r.exception # NoFault
           THEN Raise(r.exception) /\ UNCHANGED <<returncode, stdout, stderr>>
           ELSE /\ returncode' = r.returncode
                /\ stdout' = r.stdout
                /\ stderr' = r.stderr
                /\ pc' = "log"
                /\ UNCHANGED <<response, fault>>
    /\ UNCHANGED <<cvars, max_attempts, files, idx, temp_dir, disk, file_contents,
                   file_info, question, script_content, attempt, child, log,
                   generate_calls, repair_calls, executions, service,
                   executed, repair_args>>

\* writer.writerow([question, ts, attempt, returncode, stdout, stderr])
LogRow == [question |-> question, ts |-> ts, attempt |-> attempt,
           returncode |-> returncode, stdout |-> stdout, stderr |-> stderr]

\* Mutant of AppendRow: log.csv is opened with mode 'w'
AppendRow_Truncates(rows, row) == <<row>>

\* open('log.csv', mode='a') and writerow: the row goes after the rows there
AppendRow(rows, row) == Append(rows, row)

\* app.py:195-197
LogAttempt ==
    /\ pc = "log"
    /\ \/ /\ log' = AppendRow(log, LogRow)
          /\ pc' = "classify"
          /\ UNCHANGED <<response, fault>>
       \/ /\ Raise("OSError: log.csv")
          /\ UNCHANGED log
    /\ UNCHANGED <<cvars, max_attempts, files, idx, temp_dir, disk, file_contents,
                   file_info, question, script_content, attempt, child, returncode,
                   stdout, stderr, generate_calls, repair_calls, executions, service,
                   executed, repair_args>>

\* Mutant of Success: the test on the output is dropped
Success_ExitOnly(rc, out) == rc = 0

\* if returncode == 0 and stdout.strip()
Success(rc, out) == rc = 0 /\ strip(out) # <<>>

\* app.py:201-207: the response of a successful attempt
SuccessResponse(out) ==
    LET parsed == json_loads(strip(out))
    IN  CASE parsed.kind = "value" -> [raised |-> NoFault, r |-> Respond(parsed.value, 200)]
          [] parsed.kind = "JSONDecodeError" ->
                [raised |-> NoFault, r |-> Respond([result |-> strip(out)], 200)]
          [] OTHER -> [raised |-> parsed.kind, r |-> NoResponse]

\* app.py:199-207
Succeed ==
    /\ pc = "classify"
    /\ Success(returncode, stdout)
    /\ LET s == SuccessResponse(stdout)
       IN  IF s.raised # NoFault THEN Raise(s.raised) ELSE Return(s.r, "succeeded")
    /\ UNCHANGED <<cvars, max_attempts, files, idx, temp_dir, disk, file_contents,
                   file_info, question, script_content, attempt, child, returncode,
                   stdout, stderr, log, generate_calls, repair_calls, executions, service,
                   executed, repair_args>>

\* Mutant of AttemptsLeft: a repair is tried after every failed attempt
AttemptsLeft_Always(a, bound) == TRUE

\* Mutant of AttemptsLeft: the test is off by one
AttemptsLeft_OffByOne(a, bound) == a < bound

\* if attempt < max_attempts - 1
AttemptsLeft(a, bound) == a < bound - 1

\* Mutant of RepairArgs: the output of the failed attempt is not passed on
RepairArgs_NoStdout(script, rc, out, err) ==
    [script |-> script, returncode |-> rc, stdout |-> <<>>, stderr |-> err]

\* app.py:211-212: the script and the error_info (return code, stdout,
\* stderr) handed to debug_and_fix_script
RepairArgs(script, rc, out, err) ==
    [script |-> script, returncode |-> rc, stdout |-> out, stderr |-> err]

\* app.py:210-212: the repair call replaces script_content
Repair ==
    /\ pc = "classify"
    /\ ~Success(returncode, stdout)
    /\ AttemptsLeft(attempt, max_attempts)
    /\ repair_args' = RepairArgs(script_content, returncode, stdout, stderr)
    /\ \E service_ok \in BOOLEAN, answer \in FixTexts :
         /\ LET r == debug_and_fix_script(service_ok, answer)
            IN  IF r.exception # NoFault
                THEN Raise(r.exception) /\ UNCHANGED script_content
                ELSE /\ script_content' = r.text
                     /\ pc' = "rewrite"
                     /\ UNCHANGED <<response, fault>>
         /\ service' = IF service_ok THEN "ok" ELSE "failed"
    /\ repair_calls' = repair_calls + 1
    /\ UNCHANGED <<cvars, max_attempts, files, idx, temp_dir, disk, file_contents,
                   file_info, question, attempt, child, returncode, stdout, stderr,
                   log, generate_calls, executions, executed>>

\* app.py:214-215, then the loop moves to the next attempt
RewriteScript ==
    /\ pc = "rewrite"
    /\ WriteFile(attempt + 1)
    /\ UNCHANGED <<cvars, max_attempts, files, idx, temp_dir, file_contents, file_info,
                   question, script_content, child, returncode, stdout, stderr,
                   log, generate_calls, repair_calls, executions, service,
                   executed, repair_args>>

\* app.py:218-219: the failed attempt was the last one.  Every iteration of
\* the loop returns or continues, so for max_attempts >= 1 the statements
\* after the loop (app.py:221-232) are never reached.
ExhaustedResponse == Respond(<<1, "a", 23, "bc">>, 200)

\* app.py:222-227: the body of the return statement after the loop
FailurePayload(out, err, script) ==
    [error |-> "Script execution failed after multiple attempts",
     last_stdout |-> out, last_stderr |-> err, last_script |-> script]

\* The directory mkdtemp created is still there: the only rmtree of the
\* handler (app.py:228-232) follows a return statement and never runs.
WorkspaceExists == temp_dir # NoDir

Exhaust ==
    /\ pc = "classify"
    /\ ~Success(returncode, stdout)
    /\ ~AttemptsLeft(attempt, max_attempts)
    /\ Return(ExhaustedResponse, "exhausted")
    /\ UNCHANGED <<cvars, max_attempts, files, idx, temp_dir, disk, file_contents,
                   file_info, question, script_content, attempt, child, returncode,
                   stdout, stderr, log, generate_calls, repair_calls, executions, service,
                   executed, repair_args>>

----------------------------------------------------------------------------

Next ==
    \/ Mkdtemp
    \/ ProcessFile
    \/ CheckQuestion
    \/ Generate
    \/ WriteScript
    \/ Launch
    \/ Wait
    \/ LogAttempt
    \/ Succeed
    \/ Repair
    \/ RewriteScript
    \/ Exhaust

Spec == Init /\ [][Next]_vars

\* Every step the handler can take is eventually taken: the request thread
\* keeps running, and each call it makes returns.
FairSpec == Spec /\ WF_vars(Next)

----------------------------------------------------------------------------
(* Concurrent requests: the steps of each run *)

\* Mutant of mkdtemp: the name may be one that is already taken
mkdtemp_Existing(existing) == DirNames

\* tempfile.mkdtemp creates a directory that did not exist: the names it can
\* return, given the directories there are
mkdtemp(existing) == DirNames \ existing

\* script_path = os.path.join(temp_dir, 'analysis_script.py')
script_path(dir) == <<dir, ScriptName>>

\* the line csv.writer builds from [question, ts, attempt, returncode,
\* stdout, stderr]: one text per field
CsvRow(q, t, a, rc, out, err) == << q, <<t>>, <<str(a)>>, <<str(rc)>>, out, <<err>> >>

\* Mutant of AppendWrite: the data goes to the offset the file had when it
\* was opened, over what is there
AppendWrite_AtOpenOffset(file, pos, data) ==
    [i \in 1..(IF Len(file) > pos + Len(data) THEN Len(file) ELSE pos + Len(data)) |->
        IF i > pos /\ i <= pos + Len(data) THEN data[i - pos] ELSE file[i]]

\* one write of a file opened with mode 'a' (O_APPEND): the data is put at
\* the end of the file as it is at the time of the write
AppendWrite(file, pos, data) == file \o data

\* the child processes of the concurrent runs: one that succeeds and one
\* that fails
ConcBehaviours(script) ==
    Behaviours(script) \cap { Exit(0, <<WS, JsonDoc, WS>>, ""), Exit(1, <<>>, "Traceback") }

Update(c, f) == requests' = [requests EXCEPT ![c] = f]

\* temp_dir = tempfile.mkdtemp()
CMkdtemp(c) ==
    /\ requests[c].pc = "mkdtemp"
    /\ \E dir \in mkdtemp(made) :
         /\ made' = made \cup {dir}
         /\ Update(c, [requests[c] EXCEPT !.pc = "write_script", !.temp_dir = dir])
    /\ UNCHANGED <<svars, script_files, log_csv, written>>

\* with open(script_path, 'w') as f: f.write(script_content), then the
\* run goes to the call of run_script_with_uv with the loop variable at a
CWriteFile(c, script, a) ==
    /\ script_files' = Put(script_files, script_path(requests[c].temp_dir),
                           [text |-> script, by |-> c])
    /\ Update(c, [requests[c] EXCEPT !.pc = "run", !.script_content = script,
                                     !.attempt = a])
    /\ UNCHANGED <<svars, made, log_csv, written>>

\* app.py:180-187: the service answers, the fences are stripped and the
\* script is written to script_path
CWriteScript(c) ==
    /\ requests[c].pc = "write_script"
    /\ \E answer \in GenTexts :
         CWriteFile(c, StripFences(generate_analysis_script(TRUE, answer).text), 0)

\* run_script_with_uv(script_path, timeout=150): the child runs the file
\* that is at script_path
CRun(c) ==
    /\ requests[c].pc = "run"
    /\ InRange(requests[c].attempt, max_attempts)
    /\ LET file == script_files[script_path(requests[c].temp_dir)]
       IN  \E b \in ConcBehaviours(file.text) :
             LET r == run_script_with_uv(b)
             IN  Update(c, [requests[c] EXCEPT
                              !.pc = "open_log", !.ran = file,
                              !.returncode = r.returncode,
                              !.stdout = r.stdout, !.stderr = r.stderr])
    /\ UNCHANGED <<svars, made, script_files, log_csv, written>>

\* with open('log.csv', mode='a', newline='') as outfile
COpenLog(c) ==
    /\ requests[c].pc = "open_log"
    /\ Update(c, [requests[c] EXCEPT
                    !.pc = "writerow",
                    !.outfile = [mode |-> "a", buffer |-> <<>>, pos |-> Len(log_csv)]])
    /\ UNCHANGED <<svars, made, script_files, log_csv, written>>

\* writer.writerow([...]): the writer hands the whole line to outfile.write
\* in one call; a line that fits the buffer of outfile stays there, a longer
\* one goes to the file in one write
CWriteRow(c) ==
    /\ requests[c].pc = "writerow"
    /\ LET l == requests[c]
           row == CsvRow(QuestionOf(c), ts, l.attempt, l.returncode, l.stdout, l.stderr)
       IN  \E fits \in BOOLEAN :
             IF fits
             THEN /\ Update(c, [l EXCEPT !.pc = "close_log", !.outfile.buffer = row])
                  /\ UNCHANGED <<log_csv, written>>
             ELSE /\ log_csv' = AppendWrite(log_csv, l.outfile.pos, row)
                  /\ written' = Append(written, [by |-> c, attempt |-> l.attempt, row |-> row])
                  /\ Update(c, [l EXCEPT !.pc = "close_log"])
    /\ UNCHANGED <<svars, made, script_files>>

\* leaving the with block closes outfile: what its buffer holds goes to the
\* file in one write
CCloseLog(c) ==
    /\ requests[c].pc = "close_log"
    /\ LET l == requests[c]
       IN  /\ IF l.outfile.buffer # <<>>
              THEN /\ log_csv' = AppendWrite(log_csv, l.outfile.pos, l.outfile.buffer)
                   /\ written' = Append(written, [by |-> c, attempt |-> l.attempt,
                                                  row |-> l.outfile.buffer])
              ELSE UNCHANGED <<log_csv, written>>
           /\ Update(c, [l EXCEPT !.pc = "classify", !.outfile = NoFile])
    /\ UNCHANGED <<svars, made, script_files>>

\* app.py:199-207
CSucceed(c) ==
    /\ requests[c].pc = "classify"
    /\ Success(requests[c].returncode, requests[c].stdout)
    /\ Update(c, [requests[c] EXCEPT !.pc = "succeeded"])
    /\ UNCHANGED <<svars, made, script_files, log_csv, written>>

\* app.py:210-215: the service answers without fences, the answer replaces
\* the script and is written to script_path; the loop goes on
CRepair(c) ==
    /\ requests[c].pc = "classify"
    /\ ~Success(requests[c].returncode, requests[c].stdout)
    /\ AttemptsLeft(requests[c].attempt, max_attempts)
    /\ \E answer \in {a \in FixTexts : ~HasFence(a)} :
         CWriteFile(c, debug_and_fix_script(TRUE, answer).text, requests[c].attempt + 1)

\* app.py:218-219
CExhaust(c) ==
    /\ requests[c].pc = "classify"
    /\ ~Success(requests[c].returncode, requests[c].stdout)
    /\ ~AttemptsLeft(requests[c].attempt, max_attempts)
    /\ Update(c, [requests[c] EXCEPT !.pc = "exhausted"])
    /\ UNCHANGED <<svars, made, script_files, log_csv, written>>

\* max_attempts = 1, the value the handler is written with
ConfiguredAttempts == 1

\* the requests are in flight; the attempt bound is the same for all of
\* them, the configured one or one more, which lets a repair happen
ConcInit ==
    /\ Init
    /\ max_attempts \in {ConfiguredAttempts, ConfiguredAttempts + 1}
    /\ files = <<>>

ConcNext ==
    \E c \in Clients :
        \/ CMkdtemp(c)
        \/ CWriteScript(c)
        \/ CRun(c)
        \/ COpenLog(c)
        \/ CWriteRow(c)
        \/ CCloseLog(c)
        \/ CSucceed(c)
        \/ CRepair(c)
        \/ CExhaust(c)

ConcSpec == ConcInit /\ [][ConcNext]_vars

----------------------------------------------------------------------------
(* Properties *)

Done == pc \in Terminals

\* the latest attempt reached the classification of app.py:199
Classified == executions >= 1 /\ Len(log) = executions

\* C1: when the last permitted attempt fails, the final response is the
\* failure payload {error, last_stdout, last_stderr, last_script} of that
\* attempt with status 500, for every attempt bound >= 1.
C1_LastFailureYieldsFailurePayload ==
    pc = "exhausted" =>
        response = Respond(FailurePayload(stdout, stderr, script_content), 500)

\* C2: an attempt classified as success is answered with status 200 and
\* with the parsed value when the stripped stdout is a JSON document, with
\* {result: stripped stdout} otherwise; no other response is possible.
C2_SuccessHasTwoShapes ==
    (Done /\ Classified /\ returncode = 0 /\ strip(stdout) # <<>>) =>
        \/ response = Respond([a |-> 1], 200) /\ strip(stdout) = <<JsonDoc>>
        \/ response = Respond([result |-> strip(stdout)], 200)
             /\ strip(stdout) # <<JsonDoc>>

\* C3: an attempt leads to the success return if and only if its exit code
\* is 0 and its stdout is non-empty after stripping: the success branch is
\* entered only then, and the failure branches (repair, exhaustion) only
\* otherwise.
C3_SuccessIffExitZeroAndOutput ==
    /\ pc = "succeeded" => (returncode = 0 /\ strip(stdout) # <<>>)
    /\ pc \in {"rewrite", "exhausted"} => ~(returncode = 0 /\ strip(stdout) # <<>>)
    /\ (Done /\ Classified /\ returncode = 0 /\ strip(stdout) # <<>>)
          => pc \in {"succeeded", "internal_error"}

\* an attempt that exited 0 and printed only whitespace ended as a failure
C3_Witness ==
    pc = "exhausted" /\ returncode = 0 /\ stdout = <<WS>> /\ child.kind = "exit"

\* C4 as stated: every request with no question field is answered with the
\* InputError response (400), with no language-model call, no execution
\* and no audit-log row.
C4_NoQuestionFieldIsInputError ==
    (Done /\ ~HasQuestionField(files)) =>
        /\ response = InputErrorResponse
        /\ generate_calls + repair_calls = 0
        /\ executions = 0
        /\ Len(log) = 0

\* C4 as amended: a request with no question field never causes a
\* language-model call, an execution or an audit-log row, and it is answered
\* with the InputError response (400) unless creating the workspace or saving
\* an uploaded file raised, in which case the answer is the internal-error
\* response (500).
C4_NoQuestionFieldShortCircuits ==
    ~HasQuestionField(files) =>
        /\ generate_calls + repair_calls = 0
        /\ executions = 0
        /\ Len(log) = 0
        /\ pc \in {"mkdtemp", "files", "input_error", "internal_error"}
        /\ pc = "input_error" => response = InputErrorResponse /\ fault = NoFault
        /\ pc = "internal_error" =>
              /\ fault \in {"OSError: mkdtemp", "OSError: save"}
              /\ response = InternalErrorResponse(fault)

\* a request with attached files and no question field was rejected
C4_Witness ==
    /\ pc = "input_error"
    /\ ~HasQuestionField(files)
    /\ Len(files) >= 1
    /\ DOMAIN disk # {}

\* C5: every run reaches a terminal state (succeeded, exhausted, input
\* error or internal error) after finitely many steps, whatever the
\* language-model calls and the executions return, provided each call and
\* each execution returns.
C5_Terminates == <>(pc \in Terminals)

\* a run that used every attempt, the last one ending on the timeout
C5_Witness ==
    /\ pc = "exhausted"
    /\ max_attempts >= 2
    /\ executions = max_attempts
    /\ child.kind = "hang"

C6_Counts ==
    /\ attempt \in 0..(max_attempts - 1)
    /\ executions <= max_attempts
    /\ repair_calls <= executions
    /\ repair_calls <= max_attempts - 1
    /\ pc = "launch" => (executions = attempt /\ repair_calls = attempt)
    /\ pc \in {"wait", "log", "classify", "succeeded", "exhausted"} =>
          (executions = attempt + 1 /\ repair_calls = executions - 1)
    /\ pc = "exhausted" => executions = max_attempts
    /\ max_attempts = 1 => repair_calls = 0
    /\ (max_attempts = 1 /\ pc \in {"succeeded", "exhausted"}) => executions = 1

C6_AttemptStep ==
    \/ attempt' = attempt
    \/ attempt' = attempt + 1 /\ pc = "rewrite" /\ pc' = "launch"

C7_WorkspaceReclaimed == Done => ~WorkspaceExists

\* C8: every path ends with a structured response, and a fault that is not
\* handled where it is raised is turned by the outer handler into the
\* internal-error response {error, traceback} with status 500, never into a
\* success or exhaustion response and never into no response.
C8_EveryPathResponds ==
    /\ Done => (response # NoResponse /\ response.status \in {200, 400, 500})
    /\ ~Done => (response = NoResponse /\ fault = NoFault)
    /\ fault # NoFault =>
          /\ pc = "internal_error"
          /\ response = Respond([error |-> "Internal server error: " \o fault,
                                 traceback |-> fault], 500)
    /\ pc = "internal_error" => fault # NoFault
    /\ pc \in {"succeeded", "exhausted", "input_error"} => fault = NoFault

\* the audit-log write failed after an execution
C8_Witness ==
    pc = "internal_error" /\ fault = "OSError: log.csv" /\ executions >= 1

\* the latest child has ended and run_script_with_uv has returned
Returned == pc # "wait" /\ child.kind # "none"

\* C9: run_script_with_uv never raises: a child that exceeds the timeout
\* yields the sentinel -1, an empty stdout and the timeout diagnostic
\* (timed_out is the TimeoutExpired branch having run), a launch failure
\* yields the same sentinel with its own diagnostic, and such an attempt
\* is never a success.
C9_HarnessNeverRaises ==
    /\ fault \notin {"TimeoutExpired", "OSError"}
    /\ (Returned /\ child.kind = "hang") =>
          (returncode = -1 /\ stdout = <<>> /\ stderr = TimeoutMessage)
    /\ (Returned /\ child.kind = "oserror") =>
          (returncode = -1 /\ stdout = <<>> /\ stderr = LaunchMessage)
    /\ child.kind \in {"hang", "oserror"} =>
          pc \in {"wait", "log", "classify", "rewrite", "launch", "exhausted",
                  "internal_error"}
    /\ (pc = "internal_error" /\ child.kind \in {"hang", "oserror"}) =>
          fault \in {"OSError: log.csv", "OSError: write"}

\* an attempt that timed out was the last one
C9_Witness ==
    pc = "exhausted" /\ child.kind = "hang" /\ stderr = TimeoutMessage

\* C10: a failed language-model call raises nothing; the script is the
\* diagnostic comment alone, it is written and executed, the attempt fails,
\* and the run goes on to repair or exhaustion: it ends neither in success
\* from that script nor in the internal error because of the service.
C10_ServiceFailureFollowsFailurePath ==
    /\ fault # "ServiceError"
    /\ service = "failed" =>
          /\ script_content \in {<<GenerateError>>, <<DebugError>>}
          /\ pc \in {"write_script", "rewrite", "launch", "wait", "log",
                     "classify", "exhausted", "internal_error"}
          /\ pc \in {"launch", "wait", "log", "classify", "exhausted"} =>
                disk[ScriptName] = script_content
          /\ pc \in {"classify", "exhausted"} =>
                ~(returncode = 0 /\ strip(stdout) # <<>>)
          /\ pc = "exhausted" => executions = max_attempts
          /\ pc = "internal_error" =>
                fault \in {"OSError: write", "OSError: log.csv"}
    /\ pc = "succeeded" => service = "ok"

\* the repair call failed and its comment script was the last attempt
C10_Witness ==
    /\ pc = "exhausted"
    /\ service = "failed"
    /\ script_content = <<DebugError>>
    /\ child.kind = "exit"

----------------------------------------------------------------------------

\* C11 as stated: at every terminal response the log holds as many records
\* as there were executions.
C11_LogCountEqualsExecutions ==
    Done => Len(log) = executions

\* the records of the log carry the attempt indices 0, 1, 2, ... in order,
\* each with the question and the timestamp of the request; after the append
\* the last record is the attempt that has just run
C11_Rows ==
    /\ \A i \in DOMAIN log :
          /\ log[i].attempt = i - 1
          /\ log[i].question = question
          /\ log[i].ts = ts
    /\ Len(log) <= executions
    /\ pc \in {"launch", "wait", "log"} => Len(log) = attempt
    /\ pc \in {"classify", "rewrite", "succeeded", "exhausted"} =>
          /\ Len(log) = executions
          /\ log[Len(log)] = [question |-> question, ts |-> ts,
                              attempt |-> executions - 1,
                              returncode |-> returncode, stdout |-> stdout,
                              stderr |-> stderr]
    /\ pc = "internal_error" =>
          Len(log) = IF fault = "OSError: log.csv" THEN executions - 1
                     ELSE executions

\* a step leaves the log alone or adds one record at its end, and the record
\* is added between the end of the child and the test for success
C11_AppendOnly ==
    \/ log' = log
    \/ /\ Len(log') = Len(log) + 1
       /\ SubSeq(log', 1, Len(log)) = log
       /\ pc = "log"
       /\ pc' = "classify"

\* C11 as amended: every attempt whose record could be written is in the log
\* before the branch on success, in attempt order, and no record is changed
\* or removed; the count equals the executions at every response except the
\* internal error raised by the log write itself, where it is one less.
C11_AttemptsLogged ==
    [](C11_Rows) /\ [][C11_AppendOnly]_vars

\* two attempts ran and both records are in the log
C11_Witness ==
    /\ pc = "exhausted"
    /\ Len(log) = 2
    /\ log[1].attempt = 0
    /\ log[2].attempt = 1

----------------------------------------------------------------------------

\* C12: a fault while an attached file is materialized (written to the
\* workspace, its size recorded, its preview built) never ends the request:
\* the request is never answered with the internal error because of it.
C12_MaterializationFaultsAbsorbed ==
    pc = "internal_error" => fault # "OSError: save"

----------------------------------------------------------------------------

\* The state of the orchestrator at each position of analyze_data: the loop
\* over the uploads precedes GENERATING; the run of the child, its log row
\* and the test of its result are EXECUTING; from the repair call to the
\* rewrite of the script file is REPAIRING.
OrchestratorState(p) ==
    CASE p \in {"mkdtemp", "files"} -> "MATERIALIZING"
      [] p \in {"generate", "write_script"} -> "GENERATING"
      [] p \in {"launch", "wait", "log", "classify"} -> "EXECUTING"
      [] p = "rewrite" -> "REPAIRING"
      [] p = "succeeded" -> "SUCCEEDED"
      [] p = "exhausted" -> "EXHAUSTED"
      [] p = "input_error" -> "INPUT_ERROR"
      [] p = "internal_error" -> "INTERNAL_ERROR"

\* the attempt that has just been logged failed
C14_FailedExecution ==
    pc = "classify" /\ ~(returncode = 0 /\ strip(stdout) # <<>>)

C14_Transition ==
    LET a == OrchestratorState(pc)
        b == OrchestratorState(pc')
    IN  \/ a = b
        \/ a = "MATERIALIZING" /\ b \in {"GENERATING", "INPUT_ERROR"}
        \/ a = "GENERATING" /\ b = "EXECUTING" /\ executions = 0
        \/ /\ a = "EXECUTING" /\ b = "SUCCEEDED"
           /\ pc = "classify" /\ returncode = 0 /\ strip(stdout) # <<>>
        \/ /\ a = "EXECUTING" /\ b = "REPAIRING"
           /\ C14_FailedExecution
           /\ attempt < max_attempts - 1
           /\ executions < max_attempts
           /\ repair_calls' = repair_calls + 1
        \/ /\ a = "EXECUTING" /\ b = "EXHAUSTED"
           /\ C14_FailedExecution
           /\ attempt = max_attempts - 1
           /\ executions = max_attempts
        \/ /\ a = "REPAIRING" /\ b = "EXECUTING"
           /\ executions = repair_calls
        \/ /\ a \notin {"SUCCEEDED", "EXHAUSTED", "INPUT_ERROR", "INTERNAL_ERROR"}
           /\ b = "INTERNAL_ERROR"

\* between two repairs, and between a repair and a succeeded or exhausted
\* response, there is exactly one execution
C14_RepairThenOneExecution ==
    /\ OrchestratorState(pc) = "REPAIRING" => executions = repair_calls
    /\ OrchestratorState(pc) = "EXECUTING" =>
          executions \in {repair_calls, repair_calls + 1}
    /\ pc \in {"classify", "succeeded", "exhausted"} =>
          executions = repair_calls + 1
    /\ pc = "internal_error" => executions \in {repair_calls, repair_calls + 1}

----------------------------------------------------------------------------

----------------------------------------------------------------------------

\* at every execution the script file of the workspace holds the current
\* script text, and that is the text the child was started on
C16_FileHoldsCurrentScript ==
    /\ pc \in {"launch", "wait", "log", "classify", "succeeded", "exhausted"} =>
          disk[ScriptName] = script_content
    /\ pc \in {"wait", "log", "classify", "succeeded", "exhausted"} =>
          executed = script_content
    /\ pc = "rewrite" =>
          /\ repair_args.script = executed
          /\ repair_args.script = disk[ScriptName]
          /\ script_content \in FixTexts \cup {<<DebugError>>}

\* the repair call is given the script of the attempt that has just failed
\* and the exit code, stdout and stderr of the last record of the log
C16_RepairStep ==
    repair_calls' # repair_calls =>
       /\ max_attempts >= 2
       /\ Len(log) = attempt + 1
       /\ repair_args' = [script |-> executed,
                          returncode |-> log[Len(log)].returncode,
                          stdout |-> log[Len(log)].stdout,
                          stderr |-> log[Len(log)].stderr]
       /\ executed = script_content
       /\ pc' = "rewrite" => script_content' \in FixTexts \cup {<<DebugError>>}

\* C16: with a bound of at least 2, each repair call receives the script
\* executed in the attempt just before it with that attempt's exit code,
\* stdout and stderr; the repair result replaces the script entirely, and at
\* every execution the script file holds exactly the current script text.
C16_RepairSeesLastAttempt ==
    [](C16_FileHoldsCurrentScript) /\ [][C16_RepairStep]_vars

\* a repair call was given a failed attempt that had printed something, and
\* the repaired script was then executed from the script file
C16_Witness ==
    /\ pc = "classify"
    /\ max_attempts = 2
    /\ repair_calls = 1
    /\ repair_args.returncode = 1
    /\ repair_args.stdout # <<>>
    /\ executed = <<"fixed code">>

----------------------------------------------------------------------------

\* a step taken after the loop over the uploads leaves the question, the
\* previews, the metadata and every uploaded file of the workspace as they are
C17_FrameStep ==
    OrchestratorState(pc) # "MATERIALIZING" =>
       /\ UNCHANGED <<question, file_contents, file_info>>
       /\ \A n \in DOMAIN file_info : disk'[n] = disk[n]

\* C17: once materialization ends, the question, the file previews, the file
\* metadata and the uploaded files are unchanged by generation, by writing
\* the script file, by the bookkeeping of the executions and by repair;
\* writing the script file never overwrites an uploaded file.
C17_GenerationContextFixed ==
    [][C17_FrameStep]_vars

----------------------------------------------------------------------------

\* the fields of a request that are read as the question: the key is
\* questions.txt or starts with question, and the field has a filename
C19_QuestionFields(fs) ==
    { i \in DOMAIN fs : fs[i].key \in {"questions.txt", "question2"}
                         /\ fs[i].filename # "" }

\* the text read from the last such field, empty when there is none
C19_LastQuestionText(fs) ==
    IF C19_QuestionFields(fs) = {} THEN <<>>
    ELSE LET m == CHOOSE i \in C19_QuestionFields(fs) :
                     \A j \in C19_QuestionFields(fs) : j <= i
         IN  read_file_content(secure_filename(fs[m].filename), fs[m].content)

\* every question field of the request has been saved and read
C19_QuestionRead ==
    /\ C19_QuestionFields(files) # {}
    /\ \A i \in C19_QuestionFields(files) : i <= idx
    /\ question = C19_LastQuestionText(files)

\* C19: a request carrying a question field is answered with the
\* missing-question response (status 400, no language-model call, no
\* execution) exactly when the text read from its question file is empty;
\* the question is the text of the last question field processed, and a
\* question file that cannot be read gives the non-empty error marker, which
\* is used as the question and does not cause the rejection.
C19_RejectedIffQuestionEmpty ==
    /\ (Done /\ C19_QuestionRead) =>
          (pc = "input_error" <=> question = <<>>)
    /\ (pc = "input_error" /\ C19_QuestionRead) =>
          /\ response = InputErrorResponse
          /\ generate_calls = 0 /\ repair_calls = 0 /\ executions = 0
    /\ (C19_QuestionRead /\ ~Decodable(files[Len(files)].content)
          /\ files[Len(files)].key \in {"questions.txt", "question2"}) =>
          (question = ReadError /\ pc # "input_error")

----------------------------------------------------------------------------
(* Concurrent requests: properties *)

FieldsPerRow == Len(CsvRow(<<>>, ts, 0, 0, <<>>, ""))

\* the k-th record of log.csv
RowAt(k) == SubSeq(log_csv, FieldsPerRow * (k - 1) + 1, FieldsPerRow * k)

\* the rows the run of client c has handed to the file so far
RowsOf(c) == SelectSeq(written, LAMBDA w : w.by = c)

\* the number of attempts of client c whose row has left the file object
Flushed(c) ==
    LET l == requests[c]
    IN  CASE l.pc \in {"classify", "succeeded", "exhausted"} -> l.attempt + 1
          [] l.pc = "close_log" /\ l.outfile.buffer = <<>> -> l.attempt + 1
          [] OTHER -> l.attempt

\* C13: with several requests running at once, log.csv receives every
\* attempt record as one whole record: the file is the sequence of the rows
\* handed to it, each row the six fields of one attempt of one request, no
\* row is lost or split by the rows of another request, under any
\* interleaving of the steps of the requests.
C13_RecordsWhole ==
    /\ Len(log_csv) = FieldsPerRow * Len(written)
    /\ \A k \in DOMAIN written :
          /\ RowAt(k) = written[k].row
          /\ RowAt(k)[1] = QuestionOf(written[k].by)
          /\ RowAt(k)[3] = <<str(written[k].attempt)>>
    /\ \A c \in Clients :
          /\ Len(RowsOf(c)) = Flushed(c)
          /\ \A i \in DOMAIN RowsOf(c) : RowsOf(c)[i].attempt = i - 1

\* client 1 opened the file when it was empty, client 2 appended a row, and
\* the row of client 1 was then written after it
C13_Witness ==
    /\ requests[1].pc = "close_log"
    /\ requests[1].outfile.pos = 0
    /\ requests[1].outfile.buffer = <<>>
    /\ Len(written) = 2
    /\ written[1].by = 2
    /\ written[2].by = 1
    /\ RowAt(2)[1] = QuestionOf(1)

\* C18: concurrent requests never share a workspace or a script file: the
\* directories mkdtemp gave to different requests differ, a request writes
\* its script only inside its own directory, and the script a request
\* executes is the one it wrote itself, its current script text.
C18_OwnWorkspaceAndScript ==
    /\ \A c, d \in Clients :
          (c # d /\ requests[c].temp_dir # NoName) =>
              requests[c].temp_dir # requests[d].temp_dir
    /\ \A c \in Clients :
          requests[c].temp_dir # NoName => requests[c].temp_dir \in made
    /\ \A path \in DOMAIN script_files :
          path = script_path(requests[script_files[path].by].temp_dir)
    /\ \A c \in Clients :
          requests[c].pc \in {"run", "open_log", "writerow", "close_log", "classify",
                              "succeeded", "exhausted"} =>
              script_files[script_path(requests[c].temp_dir)] =
                  [text |-> requests[c].script_content, by |-> c]
    /\ \A c \in Clients :
          requests[c].ran # NoScript =>
              /\ requests[c].ran.by = c
              /\ requests[c].pc # "run" =>
                    requests[c].ran.text = requests[c].script_content

\* every request has written, rewritten and executed a script of its own
C18_Witness ==
    /\ \A c \in Clients :
          /\ requests[c].pc = "exhausted"
          /\ requests[c].attempt = 1
          /\ requests[c].ran = [text |-> <<"fixed code">>, by |-> c]
    /\ Cardinality(DOMAIN script_files) = NumClients

====
